---- MODULE Spec2Model ----
(***************************************************************************)
(* Value iteration for the two-group optimal lockdown problem              *)
(* (VI-notebook): the Bellman operator T, the convergence loop solve_model *)
(* and the SIR transition `dynamics`.                                      *)
(*                                                                         *)
(* Reals are fixed-point integers.  State coordinates and controls are     *)
(* counted in units of 1/CU, values (costs) in units of 1/VU.  Products    *)
(* are formed by MulDiv, which is exact on the integers and never leaves   *)
(* the 32-bit range.                                                       *)
(***************************************************************************)
EXTENDS Integers, Sequences, FiniteSets

CU == 10^7          \* coordinate units per 1.0
VU == 10^6          \* value units per 1.0
IntMax == 2^30 + (2^30 - 1)

\* Bounds of the model (the notebook runs N = 15, it = 40).
MaxN == 3
MaxIter == 3

(***************************************************************************)
(* Arithmetic                                                              *)
(***************************************************************************)
Abs(x) == IF x < 0 THEN -x ELSE x
Min2(a, b) == IF a <= b THEN a ELSE b
Max2(a, b) == IF a >= b THEN a ELSE b

\* <<quotient, remainder>> of a*b by d, for a, b >= 0 and d > 0, by doubling.
RECURSIVE MulDivQR(_, _, _)
MulDivQR(a, b, d) ==
    IF b = 0 THEN <<0, 0>>
    ELSE CHOOSE qr \in
           {<<2 * h[1] + (IF b % 2 = 1 THEN a \div d ELSE 0)
                + (2 * h[2] + (IF b % 2 = 1 THEN a % d ELSE 0)) \div d,
              (2 * h[2] + (IF b % 2 = 1 THEN a % d ELSE 0)) % d>> :
                 h \in {MulDivQR(a, b \div 2, d)}} : TRUE

\* a*b/d truncated toward zero, for any signs of a and b, d > 0.
MulDivOf(a, b, d) ==
    LET aa == Abs(a)
        bb == Abs(b)
        m  == IF aa = 0 \/ bb <= IntMax \div aa
              THEN (aa * bb) \div d
              ELSE MulDivQR(Max2(aa, bb), Min2(aa, bb), d)[1]
    IN  IF (a < 0) = (b < 0) THEN m ELSE -m

\* The same, with each operand evaluated once.
MulDiv(a, b, d) ==
    CHOOSE m \in {MulDivOf(x, y, z) : x \in {a}, y \in {b}, z \in {d}} : TRUE

(***************************************************************************)
(* Parameter assignments (notebook cell "Parameter Assignments")           *)
(***************************************************************************)
dt == 1
gammaDen == 18                                   \* gamma = 1.0/18
theta == (3 * CU) \div 4                         \* 0.75
L_max == <<(7 * CU) \div 10, CU>>                \* [0.7, 1]
herd_threshold == (6 * CU) \div 10               \* 0.6
P == <<818 * (CU \div 1000), 182 * (CU \div 1000)>>   \* [0.818, 0.182]
alpha_L == CU \div 10^5                          \* 0.00001
beta_0 == CU \div 5                              \* 0.2
rho_0 == (3 * CU) \div 4                         \* 0.75
\* exp(-(nu+ir)*dt) with nu = 0.667/365, ir = 0.00001/365: 0.998174244...
Discount == 998174

\* The floor of both grids and of the control box, 1e-4.
Eps == CU \div 10^4
gridSMax == CU                                   \* np.linspace(1e-4, 1, n)
gridIMax == CU \div 2                            \* np.linspace(1e-4, 0.5, n)
PopSlack == (2 * CU) \div 100                    \* the 0.02 of T's bound

VARIABLES
    N,          \* grid_size, also the global N that shapes v_greedy
    og,         \* the Model instance: its injected u and f
    max_iter, tol, verbose,      \* arguments of solve_model
    heap,       \* the value arrays allocated so far, by identity
    v,          \* solve_model's v: the identity of the current array
    v_new,      \* solve_model's v_new (Unbound before the first T returns)
    v_greedy,   \* solve_model's v_greedy (<<>> while unbound)
    iter, error,
    T_v_new,    \* T's local v_new: the identity of the array under construction
    T_v_greedy, \* T's local v_greedy
    trk,        \* T's (sy, so, iy, io)
    cur,        \* T's position in the traversal, 0 .. N^4
    pc,         \* "loop", "T", "done", "dyn" / "dynDone" for a dynamics call, or
                \* "replay" / "replayDone" for the trajectory cell
    out,        \* what has been printed
    exc,        \* the exception that ended the run, "" if none
    ret,        \* what solve_model returned: <<>> before, else (v_greedy, v_new)
    errs,       \* history: the sup-norm error of each sweep
    dynIn, dynOut,  \* a call of dynamics: (control, state) and its result
    calls,      \* history: per cell, the initial guesses handed to the minimizer
                \* in the current sweep, one per invocation
    rp          \* the trajectory cell: its arrays, herd, op and loop position
                \* (<<>> outside it)

vars == <<N, og, max_iter, tol, verbose, heap, v, v_new, v_greedy, iter, error,
          T_v_new, T_v_greedy, trk, cur, pc, out, exc, ret, errs, dynIn, dynOut,
          calls, rp>>

(***************************************************************************)
(* Model.__init__: the two grids                                           *)
(***************************************************************************)
\* np.linspace(lo, hi, n)[i]
linspace(lo, hi, n, i) ==
    IF n = 1 THEN lo
    ELSE IF i = n - 1 THEN hi
    ELSE lo + (i * (hi - lo)) \div (n - 1)

gridS(i) == linspace(Eps, gridSMax, N, i)
gridI(i) == linspace(Eps, gridIMax, N, i)

NC == N * N * N * N

\* The index tuple <<i, j, k, l>> of the n-th cell of the traversal
\* (i outermost, l innermost), and back.
CellOf(n) == <<n \div (N * N * N), (n \div (N * N)) % N, (n \div N) % N, n % N>>
NumOf(c) == ((c[1] * N + c[2]) * N + c[3]) * N + c[4]

\* bellman = [[gridS[i], gridS[j]], [gridI[k], gridI[l]]]
bellman(n) ==
    LET c == CellOf(n)
    IN  <<<<gridS(c[1]), gridS(c[2])>>, <<gridI(c[3]), gridI(c[4])>>>>

\* The two tests of T on a state: the per-group bound, then the mass test.
WithinBound(y) ==
    /\ y[1][1] + y[2][1] <= P[1] + PopSlack
    /\ y[1][2] + y[2][2] <= P[2] + PopSlack

MassOf(y) == y[1][1] + y[1][2] + y[2][1] + y[2][2]

\* Mutant of Classify: the mass test is missing.
ClassifyNoHerd(n) ==
    IF WithinBound(bellman(n)) THEN "interior" ELSE "exterior"

\* Mutant of Classify: the per-group bound is not tested.
ClassifyNoBound(n) ==
    IF MassOf(bellman(n)) >= CU - herd_threshold THEN "interior" ELSE "postherd"

Classify(n) ==
    LET y == bellman(n)
    IN  IF WithinBound(y)
        THEN IF MassOf(y) >= CU - herd_threshold THEN "interior" ELSE "postherd"
        ELSE "exterior"

(***************************************************************************)
(* SIR model: helper functions and dynamics                                *)
(***************************************************************************)
alpha_I == 1
gamma(x) == x \div gammaDen                       \* gamma * x

\* Sentinel for IEEE nan (0/0); no computed quantity reaches it.
NaN == IntMax

\* exp(-x) for 0 <= x, by its series (x is at most about 1 here).
RECURSIVE ExpSeries(_, _, _)
ExpSeries(x, k, term) ==
    IF term = 0 \/ k > 14 THEN 0
    ELSE CHOOSE e \in
           {(IF k % 2 = 1 THEN -nxt ELSE nxt) + ExpSeries(x, k + 1, nxt) :
                 nxt \in {MulDiv(term, x, k * CU)}} : TRUE

ExpNeg(x) == CHOOSE e \in {Max2(0, CU + t) : t \in {ExpSeries(x, 1, CU)}} : TRUE

\* indir(L_curr) = alpha_L * L_curr
indir(L) == MulDiv(alpha_L, L, CU)

\* phi(I_p) = a + b * I_total, with a, b multiples of gamma
phi(I) ==
    LET I_total == I[1] + I[2]
        a == <<gamma(6340), gamma(84500)>>         \* [0.000634, 0.00845] * gamma
        b == <<gamma(84500), gamma(1127000)>>      \* [0.00845, 0.1127] * gamma
    IN  <<a[1] + MulDiv(b[1], I_total, CU), a[2] + MulDiv(b[2], I_total, CU)>>

\* betaBSIR(I_b) = beta_0 * exp(-alpha_I * sum(I_b)) * [[1, rho_0], [rho_0, 1]]
betaBSIR(I) ==
    LET beta == MulDiv(beta_0, ExpNeg(alpha_I * (I[1] + I[2])), CU)
        off  == MulDiv(beta, rho_0, CU)
    IN  <<<<beta, off>>, <<off, beta>>>>

\* x / den as numpy divides: +-inf or nan when den is 0.
QuotOf(x, den) ==
    IF den = 0 THEN (IF x > 0 THEN IntMax - 1 ELSE IF x < 0 THEN -(IntMax - 1) ELSE NaN)
    ELSE MulDiv(x, CU, den)

Quot(x, den) == CHOOSE q \in {QuotOf(a, b) : a \in {x}, b \in {den}} : TRUE

\* np.maximum(np.minimum(x, hi), lo); a nan stays a nan.
ClipMinMax(x, hi, lo) ==
    CHOOSE c \in {IF a = NaN THEN NaN ELSE Max2(Min2(a, hi), lo) : a \in {x}} : TRUE

\* The floor dynamics applies to S_new, I_new and R_new: 1e-4 + 1e-5.
dynFloor == Eps + Eps \div 10

\* Mutant of ClampI: np.minimum(I_new, 0.5) is missing.
ClampINoCap(x) ==
    CHOOSE c \in {IF a = NaN THEN NaN ELSE Max2(a, dynFloor) : a \in {x}} : TRUE

ClampS(x) == ClipMinMax(x, CU, dynFloor)
ClampI(x) == ClipMinMax(x, CU \div 2, dynFloor)

\* dynamics(L_d, state): [S |-> S_new, I |-> I_new, R |-> R_new, D |-> D_new]
dynamics(L_d, state) ==
    LET S_d == state[1]
        I_d == state[2]
        R_d == <<P[1] - (S_d[1] + I_d[1]), P[2] - (S_d[2] + I_d[2])>>
        beta == betaBSIR(I_d)
        deathRate == phi(I_d)
        indirDeath == <<indir(L_d[1]), indir(L_d[2])>>
        recoveryRate == <<gamma(CU) - deathRate[1], gamma(CU) - deathRate[2]>>
        om == <<CU - MulDiv(theta, L_d[1], CU), CU - MulDiv(theta, L_d[2], CU)>>
        omI == <<MulDiv(om[1], I_d[1], CU), MulDiv(om[2], I_d[2], CU)>>
        sum_I == [g \in 1..2 |->
                    MulDiv(beta[g][1], omI[1], CU) + MulDiv(beta[g][2], omI[2], CU)]
        dI == [g \in 1..2 |->
                 MulDiv(MulDiv(sum_I[g], om[g], CU), S_d[g], CU) - gamma(I_d[g])]
        dS == [g \in 1..2 |->
                 (-dI[g]) - gamma(I_d[g]) - MulDiv(indirDeath[g], S_d[g], CU)]
        dR == [g \in 1..2 |->
                 MulDiv(recoveryRate[g], I_d[g], CU) - MulDiv(indirDeath[g], R_d[g], CU)]
        dD == [g \in 1..2 |->
                 MulDiv(deathRate[g], I_d[g], CU)
                 + MulDiv(indirDeath[g], S_d[g] + R_d[g], CU)]
        D_new == [g \in 1..2 |-> ClipMinMax(dt * dD[g], CU, 0)]
        S_new == [g \in 1..2 |-> ClampS(Quot(S_d[g] + dt * dS[g], CU - D_new[g]))]
        I_new == [g \in 1..2 |-> ClampI(Quot(I_d[g] + dt * dI[g], CU - D_new[g]))]
        R_new == [g \in 1..2 |-> ClampS(Quot(R_d[g] + dt * dR[g], CU - D_new[g]))]
    IN  [S |-> S_new, I |-> I_new, R |-> R_new, D |-> D_new]

(***************************************************************************)
(* Social/welfare cost                                                     *)
(***************************************************************************)
\* (chi + w)/ir * (1 - exp(-ir*career)) and w/ir * (1 - exp(-ir*career)) for
\* the young group, times 100; both are 0 for the old group (career = 0).
lifeValueY == 8029197
wageValueY == 729927

\* cost(L_c, state), in value units.  Only the young group has w = 1, so the
\* salary, the non-COVID and the employment terms are the young group's.
\* The line "+ ICU(I_c)" follows the closed np.sum(...) as a statement of
\* its own and adds nothing to cost.
cost(L_c, state) ==
    LET S_c == state[1]
        I_c == state[2]
        R_c == <<P[1] - (S_c[1] + I_c[1]), P[2] - (S_c[2] + I_c[2])>>
        salary == MulDiv(MulDiv(L_c[1], (6 * CU) \div 10, CU),
                         S_c[1] + I_c[1] + R_c[1], CU)
        covid == MulDiv(MulDiv(phi(I_c)[1], lifeValueY, 1000), I_c[1], CU)
        other == MulDiv(MulDiv(indir(L_c[1]), wageValueY, 1000),
                        CU + S_c[1] + R_c[1], CU)
        empl == MulDiv(MulDiv((42 * CU) \div 100, L_c[1], CU), S_c[1] + R_c[1], CU)
    IN  IF I_c[1] + I_c[2] = 0 THEN 0
        ELSE MulDiv(salary + empl, VU, CU) + covid + other

(***************************************************************************)
(* RegularGridInterpolator((gridS, gridS, gridI, gridI), v_array, 'linear') *)
(***************************************************************************)
\* The grid coordinate of index i on axis d (axes 1, 2: gridS; 3, 4: gridI).
axisAt(d, i) == IF d <= 2 THEN gridS(i) ELSE gridI(i)

\* bounds_error=True: a query off the grid on any axis (or nan) is a ValueError.
InDomain(q) ==
    \A d \in 1..4 : q[d] # NaN /\ axisAt(d, 0) <= q[d] /\ q[d] <= axisAt(d, N - 1)

\* searchsorted(grid, x) - 1, kept inside 0 .. N-2.
RECURSIVE findIndex(_, _, _)
findIndex(d, x, i) ==
    IF i + 1 <= N - 2 /\ axisAt(d, i + 1) < x THEN findIndex(d, x, i + 1) ELSE i

\* Linear along axis d, then along the axes after it; pre is the cell number
\* of the indices fixed so far.
RECURSIVE interpAxis(_, _, _, _)
interpAxis(v_array, q, d, pre) ==
    IF d = 5 THEN v_array[pre]
    ELSE CHOOSE val \in UNION
           {{lo + MulDiv(interpAxis(v_array, q, d + 1, pre * N + i + 1) - lo,
                         q[d] - axisAt(d, i), axisAt(d, i + 1) - axisAt(d, i)) :
                  lo \in {interpAxis(v_array, q, d + 1, pre * N + i)}} :
              i \in {findIndex(d, q[d], 0)}} : TRUE

Interp(v_array, q) == interpAxis(v_array, q, 1, 0)

(***************************************************************************)
(* Model: the injected u and f, and obj_func                               *)
(***************************************************************************)
\* og.u(c, y): the notebook's cost, or a stand-in returning 0 or 1.
U(c, y) ==
    CASE og.u = "cost" -> cost(c, y)
      [] og.u = "one"  -> VU
      [] OTHER         -> 0

\* og.f(c, y): the notebook's dynamics, or the identity transition.
F(c, y) ==
    IF og.f = "dynamics" THEN dynamics(c, y)
    ELSE [S |-> y[1], I |-> y[2], R |-> <<0, 0>>, D |-> <<0, 0>>]

\* np.concatenate((s0, i0)): the interpolation query of obj_func
queryOf(c, y) ==
    CHOOSE q \in {<<n.S[1], n.S[2], n.I[1], n.I[2]>> : n \in {F(c, y)}} : TRUE

\* Mutant of obj_func: the continuation value is not discounted.
obj_funcNoDiscount(c, y, v_array) ==
    CHOOSE r \in
      {IF N >= 2 /\ InDomain(q)
       THEN [ok |-> TRUE, val |-> U(c, y) * dt + Interp(v_array, q)]
       ELSE [ok |-> FALSE, val |-> 0] : q \in {queryOf(c, y)}} : TRUE

\* obj_func(c, y, v_array): ok is FALSE when the interpolator raises (an axis
\* of one point, or a query off the grid).
obj_func(c, y, v_array) ==
    CHOOSE r \in
      {IF N >= 2 /\ InDomain(q)
       THEN [ok |-> TRUE,
             val |-> U(c, y) * dt + MulDiv(Discount, Interp(v_array, q), VU)]
       ELSE [ok |-> FALSE, val |-> 0] : q \in {queryOf(c, y)}} : TRUE

(***************************************************************************)
(* minimize_wrap                                                           *)
(***************************************************************************)
\* The initial guess np.array([0, 1]).
x0 == <<0, CU>>

\* Mutant of clipToBounds: the search starts from x0 as given.
clipNothing(x, bds) == x

\* L-BFGS-B starts from x0 moved into the bounds.
clipToBounds(x, bds) ==
    <<Max2(bds[1][1], Min2(x[1], bds[1][2])), Max2(bds[2][1], Min2(x[2], bds[2][2]))>>

\* The points of the box the search is taken to visit: the start, the corners
\* and the centre.
candidates(bds) ==
    <<clipToBounds(x0, bds),
      <<bds[1][1], bds[2][1]>>, <<bds[1][2], bds[2][1]>>,
      <<bds[1][1], bds[2][2]>>, <<bds[1][2], bds[2][2]>>,
      <<(bds[1][1] + bds[1][2]) \div 2, (bds[2][1] + bds[2][2]) \div 2>>>>

\* The first of the candidates from k on with the least objective; the start
\* wins a tie.
RECURSIVE bestFrom(_, _, _, _, _)
bestFrom(cs, k, y, v_array, best) ==
    IF k > Len(cs) THEN best
    ELSE CHOOSE b \in
           {IF ~r.ok THEN [ok |-> FALSE, x |-> cs[k], fun |-> 0]
            ELSE IF r.val < best.fun
                 THEN bestFrom(cs, k + 1, y, v_array, [ok |-> TRUE, x |-> cs[k], fun |-> r.val])
                 ELSE bestFrom(cs, k + 1, y, v_array, best) :
               r \in {obj_func(cs[k], y, v_array)}} : TRUE

\* minimize_wrap(og.obj_func, bds, (y, v_array)): [ok, x |-> minimizer, fun |-> minimum]
minimize_wrap(bds, y, v_array) ==
    CHOOSE b \in
      {IF ~r1.ok THEN [ok |-> FALSE, x |-> cs[1], fun |-> 0]
       ELSE bestFrom(cs, 2, y, v_array, [ok |-> TRUE, x |-> cs[1], fun |-> r1.val]) :
          cs \in {candidates(bds)}, r1 \in {obj_func(clipToBounds(x0, bds), y, v_array)}} : TRUE

\* The second argument of the call of minimize in minimize_wrap: its initial guess.
guessOf(bds, y, v_array) == x0

(***************************************************************************)
(* T(v, og): one Bellman sweep                                             *)
(***************************************************************************)
\* What np.empty_like leaves in a cell that was never assigned.
Uninit == -1
\* The values a read of such a cell may produce.
UninitReads == {0, 7 * VU}

\* bds = [(1e-4, L_max[0]), (1e-4, L_max[1])]
bds == <<<<Eps, L_max[1]>>, <<Eps, L_max[2]>>>>

\* Mutant of empty_like: v_new is v itself.
empty_likeAliased(h, vref) == [ref |-> vref, heap |-> h]

\* v_new = np.empty_like(v): a new array, none of its cells assigned;
\* h is the heap, vref the identity of v.
RECURSIVE firstFree(_, _)
firstFree(h, i) == IF h[i] = <<>> THEN i ELSE firstFree(h, i + 1)

empty_like(h, vref) ==
    LET id == firstFree(h, 0)
    IN  [ref |-> id, heap |-> [h EXCEPT ![id] = [n \in 0..(NC - 1) |-> Uninit]]]

\* v_greedy = np.zeros((N, N, N, N, 2))
zerosPolicy == [n \in 0..(NC - 1) |-> <<0, 0>>]

\* Mutant of trackerStart: the tracker of the previous sweep is kept.
trackerKept == trk

\* Mutant of trackerStart: the tracker starts at the last cell of the traversal.
trackerLast == <<N - 1, N - 1, N - 1, N - 1>>

\* sy, so, iy, io = 0, 0, 0, 0
trackerStart == <<0, 0, 0, 0>>

\* The body of T's innermost loop at cell n.  st holds T's locals: vn the
\* contents of v_new, vg those of v_greedy, trk = (sy, so, iy, io), exc the
\* exception raised ("" if none), calls the guesses of the calls of
\* minimize_wrap so far; vold is the contents of the argument v, and garbage
\* what a read of an unassigned cell of v_new yields.
TCellStep(st, n, vold, garbage) ==
    LET cls == Classify(n)
        t   == NumOf(st.trk)
    IN  CASE cls = "interior" ->
               CHOOSE nx \in
                 {IF r.ok
                  THEN [vn  |-> [st.vn EXCEPT ![n] = r.fun],
                        vg  |-> [st.vg EXCEPT ![n] = r.x],
                        trk |-> CellOf(n),
                        exc |-> "",
                        calls |-> [st.calls EXCEPT ![n] = Append(@, g)]]
                  ELSE [st EXCEPT !.exc = "ValueError",
                                  !.calls = [st.calls EXCEPT ![n] = Append(@, g)]] :
                     r \in {minimize_wrap(bds, bellman(n), vold)},
                     g \in {guessOf(bds, bellman(n), vold)}} : TRUE
          [] cls = "postherd" ->
               [vn  |-> [st.vn EXCEPT ![n] = 0],
                vg  |-> [st.vg EXCEPT ![n] = <<0, 0>>],
                trk |-> st.trk,
                exc |-> "",
                calls |-> st.calls]
          [] OTHER ->
               [vn  |-> [st.vn EXCEPT ![n] = IF st.vn[t] = Uninit THEN garbage ELSE st.vn[t]],
                vg  |-> [st.vg EXCEPT ![n] = st.vg[t]],
                trk |-> st.trk,
                exc |-> "",
                calls |-> st.calls]

\* Whether the step at cell n reads an unassigned cell of v_new.
ReadsUninit(st, n) == Classify(n) = "exterior" /\ st.vn[NumOf(st.trk)] = Uninit

\* T's locals as T starts, and the whole of T as a function of the contents
\* of v (an unassigned read yielding 0).
TStart == [vn |-> [n \in 0..(NC - 1) |-> Uninit], vg |-> zerosPolicy,
           trk |-> trackerStart, exc |-> "", calls |-> [n \in 0..(NC - 1) |-> <<>>]]

\* The cells lo .. hi-1 of the traversal, in order.
RECURSIVE TFrom(_, _, _, _)
TFrom(st, lo, hi, vold) ==
    IF st.exc # "" \/ lo >= hi THEN st
    ELSE IF hi = lo + 1 THEN TCellStep(st, lo, vold, 0)
    ELSE LET mid  == (lo + hi) \div 2
             half == TFrom(st, lo, mid, vold)
         IN  TFrom(half, mid, hi, vold)

TOf(vold) == TFrom(TStart, 0, NC, vold)

\* np.max(np.abs(a - b))
SupNorm(a, b) ==
    LET diffs == {Abs(a[n] - b[n]) : n \in 0..(NC - 1)}
    IN  CHOOSE m \in diffs : \A d \in diffs : d <= m

(***************************************************************************)
(* solve_model(og, v0, max_iter, tol, verbose, print_skip=5)               *)
(***************************************************************************)
print_skip == 5
Unbound == -2

\* Mutants of LoopCond: the tolerance is not tested; one sweep too many.
LoopCondNoTol == iter < max_iter
LoopCondOneMore == iter <= max_iter /\ error > tol

\* The while condition.
LoopCond == iter < max_iter /\ error > tol

Msg(m, i, e) == [msg |-> m, iter |-> i, error |-> e]

\* while-test true: T is called; it allocates its arrays and starts the sweep.
LoopEnter ==
    /\ pc = "loop"
    /\ LoopCond
    /\ LET a == empty_like(heap, v)
       IN  /\ heap' = a.heap
           /\ T_v_new' = a.ref
    /\ T_v_greedy' = zerosPolicy
    /\ trk' = trackerStart
    /\ calls' = [n \in 0..(NC - 1) |-> <<>>]
    /\ cur' = 0
    /\ pc' = "T"
    /\ UNCHANGED <<N, og, max_iter, tol, verbose, v, v_new, v_greedy, iter, error,
                   out, exc, ret, errs, dynIn, dynOut, rp>>

\* One cell of T's traversal.
TCell ==
    /\ pc = "T"
    /\ cur < NC
    /\ LET st == [vn |-> heap[T_v_new], vg |-> T_v_greedy, trk |-> trk, exc |-> "",
                  calls |-> calls]
       IN  \E garbage \in (IF ReadsUninit(st, cur) THEN UninitReads ELSE {0}) :
             \E nx \in {TCellStep(st, cur, heap[v], garbage)} :
                 /\ heap' = [heap EXCEPT ![T_v_new] = nx.vn]
                 /\ T_v_greedy' = nx.vg
                 /\ trk' = nx.trk
                 /\ exc' = nx.exc
                 /\ calls' = nx.calls
                 /\ pc' = IF nx.exc = "" THEN "T" ELSE "done"
    /\ cur' = cur + 1
    /\ UNCHANGED <<N, og, max_iter, tol, verbose, v, v_new, v_greedy, iter, error,
                   T_v_new, out, ret, errs, dynIn, dynOut, rp>>

\* T returns; the rest of the loop body.
LoopBody ==
    /\ pc = "T"
    /\ cur = NC
    /\ v_greedy' = T_v_greedy
    /\ v_new' = T_v_new
    /\ error' = SupNorm(heap[v], heap[T_v_new])
    /\ out' = IF verbose /\ iter % print_skip = 0
              THEN Append(out, Msg("Error at iteration", iter, error'))
              ELSE out
    /\ v' = T_v_new
    /\ iter' = iter + 1
    /\ errs' = Append(errs, error')
    /\ pc' = "loop"
    /\ UNCHANGED <<N, og, max_iter, tol, verbose, heap, T_v_new, T_v_greedy, trk, cur,
                   exc, ret, dynIn, dynOut, calls, rp>>

\* Mutant of returned: the policy is paired with the array of the sweep before.
returnedStaleValue == <<v_greedy, Max2(v_new - 1, 0)>>

\* return v_greedy, v_new
returned == <<v_greedy, v_new>>

\* while-test false: the two reports, then return v_greedy, v_new.
LoopExit ==
    /\ pc = "loop"
    /\ ~LoopCond
    /\ LET o1 == IF iter = max_iter
                 THEN out \o <<Msg("Error at iteration", iter, error),
                               Msg("Failed to converge!", iter, error)>>
                 ELSE out
       IN  out' = IF verbose /\ iter < max_iter
                  THEN Append(o1, Msg("Converged", iter, error))
                  ELSE o1
    /\ IF v_new = Unbound
       THEN exc' = "UnboundLocalError" /\ ret' = ret
       ELSE exc' = exc /\ ret' = returned
    /\ pc' = "done"
    /\ UNCHANGED <<N, og, max_iter, tol, verbose, heap, v, v_new, v_greedy, iter, error,
                   T_v_new, T_v_greedy, trk, cur, errs, dynIn, dynOut, calls, rp>>

(***************************************************************************)
(* The run of the notebook's solve: Model(u, f, grid_size), v0, solve_model *)
(***************************************************************************)
\* tol: 0 (not a tolerance), 1e-6 and 1e-2.
TolSet == {0, 1, VU \div 100}

\* The (u, f) a Model is built with: the notebook's own, or stand-ins.
Models == {[u |-> "zero", f |-> "identity"], [u |-> "one", f |-> "identity"],
           [u |-> "cost", f |-> "dynamics"]}

Init ==
    /\ N \in 1..MaxN
    /\ og \in Models
    /\ max_iter \in 0..MaxIter
    /\ tol \in TolSet
    /\ verbose \in BOOLEAN
    /\ \E c \in {0, VU} :
         heap = [id \in 0..(max_iter + 1) |-> IF id = 0 THEN [n \in 0..(NC - 1) |-> c] ELSE <<>>]
    /\ v = 0
    /\ v_new = Unbound
    /\ v_greedy = <<>>
    /\ iter = 0
    /\ error = tol + VU
    /\ T_v_new = Unbound
    /\ T_v_greedy = <<>>
    /\ trk = <<0, 0, 0, 0>>
    /\ cur = 0
    /\ pc = "loop"
    /\ out = <<>>
    /\ exc = ""
    /\ ret = <<>>
    /\ errs = <<>>
    /\ dynIn = <<>>
    /\ dynOut = <<>>
    /\ calls = <<>>
    /\ rp = <<>>

Next == LoopEnter \/ TCell \/ LoopBody \/ LoopExit

Spec == Init /\ [][Next]_vars

(***************************************************************************)
(* A call of dynamics on a grid state with a control of the box            *)
(***************************************************************************)
\* Controls of the box bds: per component the floor, the middle and the top.
BoxSamples ==
    {<<a, b>> : a \in {bds[1][1], (bds[1][1] + bds[1][2]) \div 2, bds[1][2]},
                b \in {bds[2][1], (bds[2][1] + bds[2][2]) \div 2, bds[2][2]}}

InitDyn ==
    /\ N \in 2..MaxN
    /\ og = [u |-> "cost", f |-> "dynamics"]
    /\ \E n \in 0..(NC - 1), c \in BoxSamples : dynIn = [L |-> c, state |-> bellman(n)]
    /\ dynOut = <<>>
    /\ pc = "dyn"
    /\ max_iter = 0 /\ tol = 0 /\ verbose = FALSE
    /\ heap = <<>> /\ v = 0 /\ v_new = Unbound /\ v_greedy = <<>>
    /\ iter = 0 /\ error = 0
    /\ T_v_new = Unbound /\ T_v_greedy = <<>> /\ trk = <<0, 0, 0, 0>> /\ cur = 0
    /\ out = <<>> /\ exc = "" /\ ret = <<>> /\ errs = <<>> /\ calls = <<>>
    /\ rp = <<>>

\* (s0, i0, r0, d0) = f(c, y)
DynCall ==
    /\ pc = "dyn"
    /\ dynOut' = F(dynIn.L, dynIn.state)
    /\ pc' = "dynDone"
    /\ UNCHANGED <<N, og, max_iter, tol, verbose, heap, v, v_new, v_greedy, iter, error,
                   T_v_new, T_v_greedy, trk, cur, out, exc, ret, errs, dynIn, calls,
                   rp>>

SpecDyn == InitDyn /\ [][DynCall]_vars

(***************************************************************************)
(* The end-to-end scenario: grid size 3, constant cost 1, identity         *)
(* transition, v0 = 0, solve_model(og, v0, max_iter=5, tol=1e-6)           *)
(***************************************************************************)
InitE2E ==
    /\ N = 3
    /\ og = [u |-> "one", f |-> "identity"]
    /\ max_iter = 5
    /\ tol = 1
    /\ verbose = TRUE
    /\ heap = [id \in 0..(max_iter + 1) |-> IF id = 0 THEN [n \in 0..(NC - 1) |-> 0] ELSE <<>>]
    /\ v = 0 /\ v_new = Unbound /\ v_greedy = <<>>
    /\ iter = 0 /\ error = tol + VU
    /\ T_v_new = Unbound /\ T_v_greedy = <<>> /\ trk = <<0, 0, 0, 0>> /\ cur = 0
    /\ pc = "loop"
    /\ out = <<>> /\ exc = "" /\ ret = <<>> /\ errs = <<>> /\ calls = <<>>
    /\ rp = <<>>
    /\ dynIn = <<>> /\ dynOut = <<>>

SpecE2E == InitE2E /\ [][Next]_vars

(***************************************************************************)
(* The trajectory cell ("Run dynamics"): the computed policy is replayed    *)
(* from initial conditions, day by day                                     *)
(***************************************************************************)
\* Bound of the model on the number of days (the notebook runs T_N = 550).
T_N == 4

\* The sweeps of the solve_model call whose policy is replayed.
ReplayIters == 1..2

\* Initial proportions of each group (uniform across the groups, as in the
\* notebook): susceptible and infected; the recovered are the rest.  The
\* notebook's own are 0.98 and 0.01.
S0Set == {(20 * CU) \div 100, (30 * CU) \div 100, (50 * CU) \div 100, (98 * CU) \div 100}
I0Set == {0, CU \div 100, (2 * CU) \div 100, (21 * CU) \div 100, (70 * CU) \div 100}

\* v = np.zeros(...); v_greedy, v_solution = solve_model(og, v, max_iter = k):
\* the result of k sweeps (the error of a sweep of the notebook's cost stays
\* above tol on these grids).
RECURSIVE solved(_)
solved(k) ==
    IF k = 0 THEN [vg |-> <<>>, vn |-> [n \in 0..(NC - 1) |-> 0]]
    ELSE CHOOSE r \in {TOf(prev.vn) : prev \in {solved(k - 1)}} : TRUE

\* output(L_g, state), in coordinate units: only the young group has w = 1.
output(L_g, state) ==
    LET S_g == state[1]
        I_g == state[2]
        R_g == <<P[1] - (S_g[1] + I_g[1]), P[2] - (S_g[2] + I_g[2])>>
    IN  IF I_g[1] + I_g[2] = 0 THEN 0
        ELSE MulDiv(MulDiv(L_g[1], (6 * CU) \div 10, CU), S_g[1] + I_g[1] + R_g[1], CU)

\* np.exp(-(nu+ir)*t), in value units.
RECURSIVE discountAt(_)
discountAt(t) == IF t = 0 THEN VU ELSE MulDiv(discountAt(t - 1), Discount, VU)

\* interpControl(q): the policy array interpolated per group.  bounds_error=True
\* makes a query off the grid a ValueError.
interpControl(q) ==
    IF ~InDomain(q) THEN "ValueError"
    ELSE <<Interp([n \in 0..(NC - 1) |-> v_greedy[n][1]], q),
           Interp([n \in 0..(NC - 1) |-> v_greedy[n][2]], q)>>

\* A[t]*P
curr(A, t) == <<MulDiv(A[t][1], P[1], CU), MulDiv(A[t][2], P[2], CU)>>

\* x/P
perP(x) == <<MulDiv(x[1], CU, P[1]), MulDiv(x[2], CU, P[2])>>

\* np.concatenate((s_curr, i_curr)) of day t
queryAt(r, t) == curr(r.S, t) \o curr(r.I, t)

\* if (herd < 0 and np.sum(r_curr) >= herd_threshold): herd = t
herdAt(h, r_curr, t) ==
    IF h < 0 /\ r_curr[1] + r_curr[2] >= herd_threshold THEN t ELSE h

\* The three prints of the except branch.
valueErrorPrints(q, t) ==
    <<[msg |-> "s_curr", val |-> <<q[1], q[2]>>],
      [msg |-> "i_curr", val |-> <<q[3], q[4]>>],
      [msg |-> "ValueError at control interpolation, t =", val |-> t]>>

\* The herd test and the try/except of day t: the latched herd, the L_opt[t]
\* it leaves, whether interpControl was called and whether it raised, and
\* what was printed.  After a caught ValueError L_opt[t] is what np.zeros
\* put there.
decide(r, t) ==
    CHOOSE d \in
      {IF h > 0
       THEN [herd |-> h, L |-> <<0, 0>>, consulted |-> FALSE, caught |-> FALSE,
             prints |-> <<>>]
       ELSE IF InDomain(q)
       THEN [herd |-> h, L |-> interpControl(q), consulted |-> TRUE, caught |-> FALSE,
             prints |-> <<>>]
       ELSE [herd |-> h, L |-> r.L_opt[t], consulted |-> TRUE, caught |-> TRUE,
             prints |-> valueErrorPrints(q, t)] :
          h \in {herdAt(r.herd, curr(r.R, t), t)}, q \in {queryAt(r, t)}} : TRUE

\* np.zeros((T_N, M))
zerosTM == [t \in 0..(T_N - 1) |-> <<0, 0>>]

\* l_base = np.zeros(2)
l_base == <<0, 0>>

InitReplay ==
    /\ N \in 2..MaxN
    /\ og = [u |-> "cost", f |-> "dynamics"]
    /\ max_iter \in ReplayIters
    /\ tol = 1 /\ verbose = FALSE
    /\ v_greedy = solved(max_iter).vg
    /\ heap = <<>> /\ v = 0 /\ v_new = Unbound
    /\ iter = max_iter /\ error = 0
    /\ T_v_new = Unbound /\ T_v_greedy = <<>> /\ trk = <<0, 0, 0, 0>> /\ cur = 0
    /\ pc = "replay"
    /\ out = <<>> /\ exc = "" /\ ret = <<>> /\ errs = <<>> /\ calls = <<>>
    /\ dynIn = <<>> /\ dynOut = <<>>
    /\ \E S_0 \in S0Set, I_0 \in I0Set :
         /\ S_0 + I_0 <= CU
         /\ rp = [t |-> 0, herd |-> -1, herd_base |-> -1, op |-> 0,
                  S |-> [zerosTM EXCEPT ![0] = <<S_0, S_0>>],
                  I |-> [zerosTM EXCEPT ![0] = <<I_0, I_0>>],
                  R |-> [zerosTM EXCEPT ![0] = <<CU - S_0 - I_0, CU - S_0 - I_0>>],
                  D |-> zerosTM, D_cov |-> zerosTM, L_opt |-> zerosTM,
                  S_base |-> [zerosTM EXCEPT ![0] = <<S_0, S_0>>],
                  I_base |-> [zerosTM EXCEPT ![0] = <<I_0, I_0>>],
                  R_base |-> [zerosTM EXCEPT ![0] = <<CU - S_0 - I_0, CU - S_0 - I_0>>],
                  D_base |-> zerosTM,
                  steps |-> 0,
                  consulted |-> [t \in 0..(T_N - 1) |-> FALSE],
                  caught |-> [t \in 0..(T_N - 1) |-> FALSE]]

\* One pass of "for t in range(T_N-1)": the controlled day, then the
\* uncontrolled one.
ReplayStep ==
    /\ pc = "replay"
    /\ rp.t < T_N - 1
    /\ \E d \in {decide(rp, rp.t)}, s_curr \in {curr(rp.S, rp.t)},
          i_curr \in {curr(rp.I, rp.t)}, s_b \in {curr(rp.S_base, rp.t)},
          i_b \in {curr(rp.I_base, rp.t)} :
         \E nw \in {dynamics(d.L, <<s_curr, i_curr>>)},
            nb \in {dynamics(l_base, <<s_b, i_b>>)},
            dc \in {phi(i_curr)} :
           /\ rp' = [rp EXCEPT
                       !.herd = d.herd,
                       !.L_opt[rp.t] = d.L,
                       !.op = @ + MulDiv(discountAt(rp.t),
                                         output(d.L, <<s_curr, i_curr>>), VU) * dt,
                       !.I[rp.t + 1] = perP(nw.I),
                       !.S[rp.t + 1] = perP(nw.S),
                       !.D[rp.t + 1] = <<perP(nw.D)[1] + rp.D[rp.t][1],
                                         perP(nw.D)[2] + rp.D[rp.t][2]>>,
                       !.R[rp.t + 1] = perP(nw.R),
                       !.D_cov[rp.t + 1] =
                           <<rp.D_cov[rp.t][1]
                               + MulDiv(MulDiv(dt * dc[1], i_curr[1], CU), CU, P[1]),
                             rp.D_cov[rp.t][2]
                               + MulDiv(MulDiv(dt * dc[2], i_curr[2], CU), CU, P[2])>>,
                       !.herd_base = herdAt(@, curr(rp.R_base, rp.t), rp.t),
                       !.S_base[rp.t + 1] = perP(nb.S),
                       !.I_base[rp.t + 1] = perP(nb.I),
                       !.R_base[rp.t + 1] = perP(nb.R),
                       !.D_base[rp.t + 1] = <<perP(nb.D)[1] + rp.D_base[rp.t][1],
                                              perP(nb.D)[2] + rp.D_base[rp.t][2]>>,
                       !.consulted[rp.t] = d.consulted,
                       !.caught[rp.t] = d.caught,
                       !.steps = @ + 1,
                       !.t = @ + 1]
           /\ out' = out \o d.prints
    /\ UNCHANGED <<N, og, max_iter, tol, verbose, heap, v, v_new, v_greedy, iter, error,
                   T_v_new, T_v_greedy, trk, cur, pc, exc, ret, errs, dynIn, dynOut,
                   calls>>

\* "manually calculate last step's optimal policy": the herd test and the
\* try/except for day T_N - 1, after the loop.
ReplayLast ==
    /\ pc = "replay"
    /\ rp.t = T_N - 1
    /\ \E d \in {decide(rp, T_N - 1)} :
           /\ rp' = [rp EXCEPT
                       !.herd = d.herd,
                       !.L_opt[T_N - 1] = d.L,
                       !.consulted[T_N - 1] = d.consulted,
                       !.caught[T_N - 1] = d.caught,
                       !.steps = @ + 1]
           /\ out' = out \o d.prints
    /\ pc' = "replayDone"
    /\ UNCHANGED <<N, og, max_iter, tol, verbose, heap, v, v_new, v_greedy, iter, error,
                   T_v_new, T_v_greedy, trk, cur, exc, ret, errs, dynIn, dynOut, calls>>

SpecReplay == InitReplay /\ [][ReplayStep \/ ReplayLast]_vars

(***************************************************************************)
(* Properties                                                              *)
(***************************************************************************)
Reported(m) == \E k \in 1..Len(out) : out[k].msg = m

\* The classes of a cell, from its state.
IsExterior(n) == ~WithinBound(bellman(n))
IsPostHerd(n) == WithinBound(bellman(n)) /\ MassOf(bellman(n)) < CU - herd_threshold
IsInteriorAdmissible(n) ==
    WithinBound(bellman(n)) /\ MassOf(bellman(n)) >= CU - herd_threshold

\* gridSize >= 2, tolerance > 0 and maxIterations >= 1 is what a configuration
\* must satisfy.
InvalidConfiguration == N < 2 \/ tol <= 0 \/ max_iter <= 0

\* The steps solve_model has taken, counted in cells and sweeps; its largest
\* value is that of the return.
Variant ==
    IF pc = "done" THEN (max_iter + 1) * (NC + 2)
    ELSE iter * (NC + 2) + (IF pc = "T" THEN cur + 1 ELSE 0)

\* Some step of solve_model can be taken: the guards of LoopEnter, LoopExit,
\* TCell and LoopBody (what follows a guard in each of them only assigns).
CanStep ==
    \/ pc = "loop" /\ LoopCond
    \/ pc = "loop" /\ ~LoopCond
    \/ pc = "T" /\ cur < NC
    \/ pc = "T" /\ cur = NC

\* C1: for max_iter >= 1 and tol > 0, solve_model reaches its return (until
\* the return a step can always be taken, and every step raises a count that
\* is bounded, so the steps run out), and it has then run exactly
\* min(max_iter, k*) sweeps, k* the first sweep whose sup-norm error is at or
\* below tol: the counter never passes max_iter, no sweep is run after one whose
\* error is <= tol, and the loop stops only at max_iter or on such a sweep.
C1_SweepCount ==
    /\ []((max_iter >= 1 /\ tol > 0) =>
            /\ (pc # "done" => CanStep)
            /\ Variant <= (max_iter + 1) * (NC + 2)
            /\ iter <= max_iter
            /\ Len(errs) = iter
            /\ \A k \in 1..(iter - 1) : errs[k] > tol
            /\ (pc = "T" => iter < max_iter /\ \A k \in 1..iter : errs[k] > tol)
            /\ (pc = "done" => /\ exc = ""
                               /\ iter >= 1
                               /\ (iter = max_iter \/ errs[iter] <= tol)))
    /\ [][(max_iter >= 1 /\ tol > 0) => Variant' > Variant]_vars

\* A run that stopped on its second sweep, one short of its budget of three.
C1_Witness ==
    /\ pc = "done" /\ tol > 0 /\ max_iter = 3 /\ iter = 2
    /\ errs[1] > tol /\ errs[2] <= tol

\* C2: at the return, the report says why the loop stopped: "Failed to
\* converge!" exactly when the last error is still above tol, and (when
\* verbose) "Converged" exactly when the last error is at or below tol, also
\* when that happens on sweep number max_iter.
C2_ReportMatchesCause ==
    (pc = "done" /\ ~InvalidConfiguration /\ exc = "") =>
        /\ Reported("Failed to converge!") <=> (error > tol)
        /\ verbose => (Reported("Converged") <=> (error <= tol))

\* C3: with max_iter = 1 and a first sweep whose error exceeds tol, solve_model
\* runs one sweep, reports "Failed to converge!" and not convergence, raises
\* nothing, and returns the policy and value arrays of T applied to v0.
C3_BudgetExhaustion ==
    (pc = "done" /\ max_iter = 1) =>
        /\ exc = ""
        /\ (errs[1] > tol =>
              /\ iter = 1
              /\ Reported("Failed to converge!")
              /\ ~Reported("Converged")
              /\ ret # <<>>
              /\ ret[1] = TOf(heap[0]).vg
              /\ heap[ret[2]] = TOf(heap[0]).vn)

\* A one-sweep run that ended above its tolerance, on a grid with interior cells.
C3_Witness ==
    /\ pc = "done" /\ max_iter = 1 /\ N >= 2 /\ tol > 0
    /\ iter = 1 /\ errs[1] > tol /\ ret # <<>>

\* C4: a configuration with grid size < 2, tol <= 0 or max_iter <= 0 is
\* rejected with InvalidConfiguration before any sweep: it never starts a
\* sweep, and it ends in no other way.
C4_InvalidRejected ==
    InvalidConfiguration =>
        /\ pc # "T"
        /\ iter = 0
        /\ (pc = "done" => exc = "InvalidConfiguration")

\* C5: whatever the previous array, every post-herd cell holds value 0 and
\* policy [0, 0], as the sweep writes it and in what T returns.
C5_PostHerdZero ==
    /\ (pc = "T" /\ cur > 0 /\ IsPostHerd(cur - 1)) =>
         heap[T_v_new][cur - 1] = 0 /\ T_v_greedy[cur - 1] = <<0, 0>>
    /\ (pc \in {"loop", "done"} /\ iter >= 1) =>
         \A n \in 0..(NC - 1) :
            IsPostHerd(n) => heap[v_new][n] = 0 /\ v_greedy[n] = <<0, 0>>

\* A finished sweep over an array that was not 0 at a post-herd cell.
C5_Witness ==
    /\ pc = "T" /\ cur = NC /\ N >= 2
    /\ \E n \in 0..(NC - 1) : IsPostHerd(n) /\ heap[v][n] > 0 /\ heap[T_v_new][n] = 0

\* x is a control of the box [epsilon, L_max], componentwise.
InBox(x) == \A g \in 1..2 : bds[g][1] <= x[g] /\ x[g] <= bds[g][2]

\* C6 as stated: after every sweep, the policy of every cell whose state
\* satisfies the per-group population bound lies in [epsilon, L_max].
C6_AdmissibleInBox ==
    (pc \in {"loop", "done"} /\ iter >= 1) =>
        \A n \in 0..(NC - 1) : WithinBound(bellman(n)) => InBox(v_greedy[n])

\* C6, amended: as a sweep writes it and after every sweep, the policy of
\* every interior-admissible cell (within the bound, mass >= 1 - herd_threshold)
\* lies in [epsilon, L_max] componentwise; the other cells within the bound,
\* the post-herd ones, hold [0, 0], which is below epsilon.
C6_InteriorInBox ==
    /\ (pc = "T" /\ cur > 0) =>
         /\ IsInteriorAdmissible(cur - 1) => InBox(T_v_greedy[cur - 1])
         /\ IsPostHerd(cur - 1) =>
              T_v_greedy[cur - 1] = <<0, 0>> /\ ~InBox(T_v_greedy[cur - 1])
    /\ (pc \in {"loop", "done"} /\ iter >= 1) =>
         \A n \in 0..(NC - 1) :
            /\ IsInteriorAdmissible(n) => InBox(v_greedy[n])
            /\ IsPostHerd(n) => v_greedy[n] = <<0, 0>> /\ ~InBox(v_greedy[n])

\* A finished sweep of the notebook's own cost and dynamics, with a minimizer
\* that is not the start of the search and with a post-herd cell.
C6_Witness ==
    /\ pc = "loop" /\ iter >= 1 /\ og.u = "cost"
    /\ \E n \in 0..(NC - 1) :
         IsInteriorAdmissible(n) /\ InBox(v_greedy[n]) /\ v_greedy[n] # clipToBounds(x0, bds)
    /\ \E n \in 0..(NC - 1) : IsPostHerd(n)

\* The last interior-admissible cell among lo .. hi-1, or -1.
RECURSIVE LastInterior(_, _)
LastInterior(lo, hi) ==
    IF lo >= hi THEN -1
    ELSE IF hi = lo + 1 THEN (IF IsInteriorAdmissible(lo) THEN lo ELSE -1)
    ELSE LET mid == (lo + hi) \div 2
             up  == LastInterior(mid, hi)
         IN  IF up # -1 THEN up ELSE LastInterior(lo, mid)

\* The cell an exterior cell n copies: the last interior-admissible cell before
\* n in traversal order, and cell (0, 0, 0, 0) when there is none.
SourceOf(n) == Max2(0, LastInterior(0, n))

\* C7 as stated: within a sweep every exterior cell holds the value and the
\* policy of the last interior-admissible cell visited before it.
C7_ExteriorCopiesInterior ==
    pc = "T" =>
        \A n \in 0..(cur - 1) :
            IsExterior(n) =>
                \E m \in 0..(n - 1) :
                    /\ IsInteriorAdmissible(m)
                    /\ \A k \in (m + 1)..(n - 1) : ~IsInteriorAdmissible(k)
                    /\ heap[T_v_new][n] = heap[T_v_new][m]
                    /\ T_v_greedy[n] = T_v_greedy[m]

\* C7, amended: every exterior cell holds, as the sweep writes it, the value
\* and the policy the same sweep wrote for the tracker's cell, and when the
\* sweep has ended those of the last interior-admissible cell before it in
\* traversal order, or, when no interior-admissible cell precedes it, those of
\* cell (0, 0, 0, 0); the tracker starts anew at (0, 0, 0, 0) in every sweep and
\* is set by interior-admissible cells only.  On a 2x2 grid every exterior cell
\* after the one interior cell equals that cell.
C7_ExteriorCopiesSource ==
    /\ []((pc = "T" /\ cur > 0 /\ IsExterior(cur - 1)) =>
             /\ heap[T_v_new][cur - 1] = heap[T_v_new][NumOf(trk)]
             /\ T_v_greedy[cur - 1] = T_v_greedy[NumOf(trk)])
    /\ []((pc \in {"loop", "done"} /\ iter >= 1) =>
             /\ \A n \in 0..(NC - 1) :
                  IsExterior(n) =>
                     /\ heap[v_new][n] = heap[v_new][SourceOf(n)]
                     /\ v_greedy[n] = v_greedy[SourceOf(n)]
             /\ N = 2 =>
                  \A n \in 3..(NC - 1) :
                     /\ IsExterior(n)
                     /\ heap[v_new][n] = heap[v_new][2]
                     /\ v_greedy[n] = v_greedy[2])
    /\ [][/\ (pc = "loop" /\ pc' = "T") => trk' = <<0, 0, 0, 0>>
          /\ (pc = "T" /\ pc' = "T") =>
                trk' = IF IsInteriorAdmissible(cur) THEN CellOf(cur) ELSE trk]_vars

\* The end of a second sweep on the 2x2 grid: an exterior cell before the
\* interior cell holds the 0 of cell (0, 0, 0, 0), the ones after it its value.
C7_Witness ==
    /\ pc = "T" /\ cur = NC /\ N = 2 /\ iter >= 1
    /\ IsExterior(1) /\ IsInteriorAdmissible(2) /\ IsExterior(3)
    /\ heap[T_v_new][1] = 0
    /\ heap[T_v_new][3] = heap[T_v_new][2] /\ heap[T_v_new][3] > 0

\* C8: the value arrays are double-buffered.  T writes to an array that was
\* not allocated before the sweep and is not v, a step of the sweep changes no
\* array but that one, and v stays the same array with the same contents; the
\* value of an interior cell is the minimum of the objective over the contents
\* of v; solve_model takes the sup-norm against those contents and only then
\* makes the new array its v.
C8_DoubleBuffered ==
    /\ [](pc = "T" =>
            /\ T_v_new # v
            /\ (cur > 0 /\ IsInteriorAdmissible(cur - 1)) =>
                  heap[T_v_new][cur - 1]
                    = minimize_wrap(bds, bellman(cur - 1), heap[v]).fun)
    /\ [][/\ (pc = "loop" /\ pc' = "T") =>
                /\ heap[T_v_new'] = <<>>
                /\ T_v_new' # v
                /\ v' = v
                /\ \A id \in DOMAIN heap : id # T_v_new' => heap'[id] = heap[id]
          /\ (pc = "T" /\ pc' = "T") =>
                /\ v' = v /\ T_v_new' = T_v_new
                /\ \A id \in DOMAIN heap : id # T_v_new => heap'[id] = heap[id]
          /\ (pc = "T" /\ pc' = "loop") =>
                /\ heap' = heap
                /\ error' = SupNorm(heap[v], heap[T_v_new])
                /\ v' = T_v_new
                /\ v' # v]_vars

\* In a second or later sweep, an interior cell was just written with a value
\* that is not the one v holds for it.
C8_Witness ==
    /\ pc = "T" /\ cur > 0 /\ iter >= 1
    /\ IsInteriorAdmissible(cur - 1)
    /\ heap[T_v_new][cur - 1] # heap[v][cur - 1]

\* C9: for every grid state and every control of the box, dynamics returns
\* susceptible coordinates within [gridS.min, gridS.max] = [1e-4, 1] and
\* infected coordinates within [gridI.min, gridI.max] = [1e-4, 0.5], so the
\* query obj_func makes of the interpolator is inside the grid and obj_func
\* raises nothing.
C9_DynamicsInDomain ==
    pc = "dynDone" =>
        /\ \A g \in 1..2 :
              /\ gridS(0) <= dynOut.S[g] /\ dynOut.S[g] <= gridS(N - 1)
              /\ gridI(0) <= dynOut.I[g] /\ dynOut.I[g] <= gridI(N - 1)
              /\ Eps <= dynOut.S[g] /\ dynOut.S[g] <= CU
              /\ Eps <= dynOut.I[g] /\ dynOut.I[g] <= CU \div 2
        /\ InDomain(queryOf(dynIn.L, dynIn.state))
        /\ obj_func(dynIn.L, dynIn.state, [n \in 0..(NC - 1) |-> 0]).ok

\* A call whose infected share was cut to 0.5 and whose susceptible share of
\* the other group was raised to the floor.
C9_Witness ==
    /\ pc = "dynDone"
    /\ dynOut.I[1] = CU \div 2
    /\ \E g \in 1..2 : dynOut.S[g] = dynFloor

\* 1 + discount + ... + discount^(k-1), as k sweeps of obj_func build it.
RECURSIVE GeoSum(_)
GeoSum(k) == IF k = 0 THEN 0 ELSE VU + MulDiv(Discount, GeoSum(k - 1), VU)

\* The sum of the whole series, 1 / (1 - discount).
GeoLimit == MulDiv(VU, VU, VU - Discount)

\* C10 as stated: the scenario (grid size 3, cost 1, identity transition,
\* v0 = 0, max_iter = 5, tol = 1e-6) ends with a sup-norm error <= tol, is
\* reported as converged, and every interior-admissible cell holds the sum of
\* the geometric series in discount.
C10_ConvergesToSeries ==
    pc = "done" =>
        /\ error <= tol
        /\ Reported("Converged")
        /\ \A n \in 0..(NC - 1) :
              IsInteriorAdmissible(n) => Abs(heap[v][n] - GeoLimit) <= tol

\* C10, amended: the scenario runs its five sweeps without converging: after
\* sweep k every interior-admissible cell holds the partial sum
\* 1 + discount + ... + discount^(k-1) and the sup-norm error of the sweep is
\* discount^(k-1), so the run ends at sweep 5 with the error about 0.9927, far
\* above tol, reports "Failed to converge!" and not convergence, and returns
\* the five-term partial sum (about 4.98, the series sums to about 547.6).
C10_PartialSums ==
    /\ pc \in {"loop", "done"} =>
         /\ \A n \in 0..(NC - 1) : IsInteriorAdmissible(n) => heap[v][n] = GeoSum(iter)
         /\ \A k \in 1..iter : errs[k] = GeoSum(k) - GeoSum(k - 1) /\ errs[k] > tol
    /\ pc = "done" =>
         /\ iter = max_iter /\ iter = 5
         /\ exc = ""
         /\ error > tol
         /\ error > (99 * VU) \div 100
         /\ Reported("Failed to converge!")
         /\ ~Reported("Converged")
         /\ \A n \in 0..(NC - 1) :
               IsInteriorAdmissible(n) =>
                  /\ heap[ret[2]][n] = GeoSum(5)
                  /\ heap[ret[2]][n] < 5 * VU
                  /\ heap[ret[2]][n] < GeoLimit - 500 * VU

\* The scenario has returned, with interior cells holding the five-term sum.
C10_Witness ==
    /\ pc = "done" /\ N = 3 /\ og.u = "one" /\ og.f = "identity" /\ iter = 5
    /\ \E n \in 0..(NC - 1) : IsInteriorAdmissible(n) /\ heap[v][n] = GeoSum(5)

\* The number of the three classes a cell falls in.
ClassCount(n) ==
    (IF IsExterior(n) THEN 1 ELSE 0) + (IF IsPostHerd(n) THEN 1 ELSE 0)
      + (IF IsInteriorAdmissible(n) THEN 1 ELSE 0)

\* The number of invocations of the minimizer a sweep owes a cell.
CallsDue(n) == IF IsInteriorAdmissible(n) THEN 1 ELSE 0

\* C11: in every sweep each of the N^4 cells falls in exactly one of the
\* classes exterior, post-herd and interior-admissible, which is the branch T
\* takes for it; the minimizer is invoked exactly once for an
\* interior-admissible cell and never for an exterior or post-herd cell, as
\* the sweep passes the cell and when the sweep has ended.
C11_OneCallPerInterior ==
    /\ (pc = "T" /\ cur = 0) =>
         \A n \in 0..(NC - 1) :
            /\ ClassCount(n) = 1
            /\ Len(calls[n]) = 0
            /\ Classify(n) = "exterior" <=> IsExterior(n)
            /\ Classify(n) = "postherd" <=> IsPostHerd(n)
            /\ Classify(n) = "interior" <=> IsInteriorAdmissible(n)
    /\ (pc = "T" /\ cur > 0) => Len(calls[cur - 1]) = CallsDue(cur - 1)
    /\ (pc = "T" /\ cur < NC) => Len(calls[cur]) = 0
    /\ (pc \in {"loop", "done"} /\ iter >= 1) =>
         \A n \in 0..(NC - 1) : Len(calls[n]) = CallsDue(n)

\* The end of a sweep on the grid of size 3, which has cells of all three
\* classes: one call at an interior cell, none at the others.
C11_Witness ==
    /\ pc = "T" /\ cur = NC /\ N = 3
    /\ \E a, b, c \in 0..(NC - 1) :
         /\ IsInteriorAdmissible(a) /\ Len(calls[a]) = 1
         /\ IsPostHerd(b) /\ Len(calls[b]) = 0
         /\ IsExterior(c) /\ Len(calls[c]) = 0

\* C12: every invocation of the minimizer, at every interior-admissible cell
\* of every sweep, is handed the same initial guess (epsilon, control_max), the
\* corner (1e-4, L_max[1]) of the control box, and that guess lies inside the
\* box bounds the minimizer is given.
C12_FixedGuessInBox ==
    (pc \in {"T", "loop", "done"} /\ iter + cur >= 1) =>
        \A n \in 0..(NC - 1) :
            \A k \in 1..Len(calls[n]) :
                /\ calls[n][k] = <<Eps, L_max[2]>>
                /\ InBox(calls[n][k])

\* C14: within a sweep no cell of the new arrays is read before the sweep has
\* written it.  When T is about to copy from the tracked index at an exterior
\* cell, that index is a cell the traversal has already passed and its value
\* is assigned, also while the tracker still holds (0, 0, 0, 0); every cell
\* the sweep has passed is assigned, and so is every cell of what T returns.
C14_NoUninitRead ==
    /\ (pc = "T" /\ cur < NC /\ IsExterior(cur)) =>
         /\ NumOf(trk) < cur
         /\ heap[T_v_new][NumOf(trk)] # Uninit
         /\ ~ReadsUninit([vn |-> heap[T_v_new], trk |-> trk], cur)
    /\ (pc = "T" /\ cur > 0) => heap[T_v_new][cur - 1] # Uninit
    /\ (pc \in {"loop", "done"} /\ iter >= 1) =>
         \A n \in 0..(NC - 1) : heap[v_new][n] # Uninit

\* T is about to copy at an exterior cell while no interior-admissible cell
\* has been solved in the sweep and the tracker is still (0, 0, 0, 0).
C14_Witness ==
    /\ pc = "T" /\ cur > 0 /\ cur < NC /\ IsExterior(cur)
    /\ trk = <<0, 0, 0, 0>>
    /\ \A n \in 0..(NC - 1) : Len(calls[n]) = 0
    /\ heap[T_v_new][0] # Uninit /\ heap[T_v_new][cur] = Uninit

\* C16: for max_iter >= 1 the returned pair is consistent.  When solve_model
\* returns after k executed sweeps, the returned value array is the loop's
\* current array and equals T applied k times to v0 (each array of the run is
\* T of the one before it), and the returned policy is the policy T yields on
\* the (k-1)-th array, that of the same k-th sweep.
C16_ReturnedPairConsistent ==
    [][(pc = "loop" /\ pc' = "done" /\ max_iter >= 1) =>
          /\ iter >= 1
          /\ ret' # <<>>
          /\ ret'[2] = v' /\ ret'[2] = v_new' /\ ret'[2] = iter'
          /\ heap' = heap
          /\ \E c \in {0, VU} : heap[0] = [n \in 0..(NC - 1) |-> c]
          /\ \A k \in 1..iter :
                \E r \in {TOf(heap[k - 1])} :
                   /\ heap[k] = r.vn
                   /\ k = iter => ret'[1] = r.vg]_vars

\* A run of three sweeps of the notebook's cost and dynamics has returned, and
\* the policy of its last sweep is not that of its first.
C16_Witness ==
    /\ pc = "done" /\ iter = 3 /\ og.u = "cost" /\ ret # <<>>
    /\ ret[1] # TOf(heap[0]).vg

\* The query of day t moved onto the grid's box, axis by axis.
clampQ(q) == [d \in 1..4 |-> Max2(Min2(q[d], axisAt(d, N - 1)), axisAt(d, 0))]

\* C13: during the replay an out-of-domain interpolation error at day t is
\* caught and reported, and then either the trajectory does not go on from
\* day t or the control of day t is the policy at the clamped query; the run
\* never continues from day t with a control that was not obtained from the
\* policy.
C13_ErrorNotSwallowed ==
    (pc \in {"replay", "replayDone"}) =>
        \A t \in 0..(T_N - 1) :
            rp.caught[t] =>
                /\ \E k \in 1..Len(out) :
                      /\ out[k].msg = "ValueError at control interpolation, t ="
                      /\ out[k].val = t
                /\ \/ rp.t = t
                   \/ rp.L_opt[t] = interpControl(clampQ(queryAt(rp, t)))

\* The recovered mass np.sum(r_curr) of day t.
massAt(t) == curr(rp.R, t)[1] + curr(rp.R, t)[2]

\* The first day handled so far whose recovered mass reaches herd_threshold,
\* -1 if there is none.
firstHerd ==
    IF \E t \in 0..(rp.steps - 1) : massAt(t) >= herd_threshold
    THEN CHOOSE t \in 0..(rp.steps - 1) :
            /\ massAt(t) >= herd_threshold
            /\ \A u \in 0..(t - 1) : massAt(u) < herd_threshold
    ELSE -1

\* C15: herd is latched at the first day t0 whose recovered mass is at least
\* herd_threshold and never changes afterwards, and from day t0 on, t0
\* included and for every t0 >= 0, L_opt[t] is 0 and the policy interpolator
\* is not consulted.
C15_HerdLatchedControlZero ==
    (pc \in {"replay", "replayDone"}) =>
        /\ rp.herd = firstHerd
        /\ \A t \in 0..(rp.steps - 1) :
              (firstHerd >= 0 /\ t >= firstHerd) =>
                  rp.L_opt[t] = <<0, 0>> /\ ~rp.consulted[t]

====
